---- MODULE Spec2Model ----
(***************************************************************************)
(* The accident risk classification pipeline, in its two variants:         *)
(*   - the served engine   src/src/LangGraphScripts/accident_engine.py     *)
(*     (class AccidentDecisionEngine, called by src/src/main.py), and      *)
(*   - the single-file reference pipeline                                  *)
(*     src/src/<study dir>/1.<...>_Agent_<...>.py  (build_graph).          *)
(*                                                                         *)
(* The source's categorical tokens are Korean strings; the module writes   *)
(* them with ASCII names, one name per source token:                       *)
(*   unknown (bul-myeong)   none (eops-eum)     present (iss-eum)          *)
(*   ambiguous (ae-mae)     mild (gyeong-mi)    persistent (ji-sok)        *)
(*   worsening (ak-hwa)     scheduled (ye-jeong) completed (wan-ryo)       *)
(*   scratch, dented, broken, domestic, imported, electric,                *)
(*   sufficient, partial, amicable, aggressive, yes (ye), no (a-ni-o),     *)
(*   low, medium, high, stop_and_go, parked, lane_change, rear_end, other. *)
(* A Python dict is a sequence of <<key, value>> pairs with distinct keys, *)
(* in insertion order.                                                     *)
(***************************************************************************)
EXTENDS Naturals, Sequences, FiniteSets, TLC

\* ------------------------------------------------------------------ bounds
\* How many entries of a base scenario one caller input may differ in.
MaxChanged == 1

\* ------------------------------------------------------------- dict helpers
\* What dict.get(k) returns for a missing key.
None == "None"
\* Marks, in a change to a base scenario, a key the caller leaves out.
Absent == "<absent>"

Keys(d) == {d[i][1] : i \in DOMAIN d}

\* d.get(k)
Get(d, k) ==
    IF k \in Keys(d) THEN d[CHOOSE i \in DOMAIN d : d[i][1] = k][2] ELSE None

\* d.setdefault(k, v): an existing entry is kept, a missing one is appended.
SetDefault(d, k, v) == IF k \in Keys(d) THEN d ELSE Append(d, <<k, v>>)

\* [k for k, v in d.items() if v == x], in the dict's order.
KeysWithValue(d, x) ==
    LET hit == SelectSeq(d, LAMBDA kv : kv[2] = x)
    IN  [i \in DOMAIN hit |-> hit[i][1]]

\* s[:n]
Take(s, n) == SubSeq(s, 1, IF Len(s) < n THEN Len(s) ELSE n)

Range(s) == {s[i] : i \in DOMAIN s}

Reverse(s) == [i \in DOMAIN s |-> s[Len(s) + 1 - i]]

\* ------------------------------------------------------------- the schema
UNKNOWN == "unknown"

DEFAULTS ==
    << <<"accident_type", UNKNOWN>>, <<"speed", UNKNOWN>>, <<"injury", UNKNOWN>>,
       <<"pain_now", UNKNOWN>>, <<"hospital_visit", UNKNOWN>>,
       <<"vehicle_damage", UNKNOWN>>, <<"adas_sensor", UNKNOWN>>,
       <<"vehicle_type", UNKNOWN>>, <<"evidence", UNKNOWN>>,
       <<"opponent_attitude", UNKNOWN>>, <<"opponent_mentions_hospital", UNKNOWN>>,
       <<"opponent_mentions_insurance", UNKNOWN>>, <<"notes", "">> >>

FixedKeys == Keys(DEFAULTS)

\* The key the API layer adds to the request's fields.
RagKey == "rag_context"

\* The closed vocabulary of each field (the Facts schema).
Vocabulary(k) ==
    CASE k = "accident_type" ->
            {"stop_and_go", "parked", "lane_change", "rear_end", "other", UNKNOWN}
      [] k = "speed" -> {"low", "medium", "high", UNKNOWN}
      [] k = "injury" -> {"none", "ambiguous", "present", UNKNOWN}
      [] k = "pain_now" -> {"none", "mild", "persistent", "worsening", UNKNOWN}
      [] k = "hospital_visit" -> {"none", "scheduled", "completed", UNKNOWN}
      [] k = "vehicle_damage" -> {"none", "scratch", "dented", "broken", UNKNOWN}
      [] k = "adas_sensor" -> {"none", "present", UNKNOWN}
      [] k = "vehicle_type" -> {"domestic", "imported", "electric", UNKNOWN}
      [] k = "evidence" -> {"sufficient", "partial", "none", UNKNOWN}
      [] k = "opponent_attitude" -> {"amicable", "ambiguous", "aggressive", UNKNOWN}
      [] k = "opponent_mentions_hospital" -> {"no", "yes", UNKNOWN}
      [] k = "opponent_mentions_insurance" -> {"no", "yes", UNKNOWN}
      [] OTHER -> {"", "memo", UNKNOWN}

\* The order of a request's fields, then the key the API layer adds.
RequestOrder ==
    << "accident_type", "speed", "injury", "pain_now", "hospital_visit",
       "vehicle_damage", "adas_sensor", "vehicle_type", "evidence",
       "opponent_attitude", "opponent_mentions_hospital",
       "opponent_mentions_insurance", "notes", RagKey >>

\* The demo's input: one red flag (insurance mentioned), adas_sensor unknown.
DemoFacts ==
    << <<"accident_type", "stop_and_go">>, <<"speed", "low">>, <<"injury", "none">>,
       <<"pain_now", "none">>, <<"hospital_visit", "none">>,
       <<"vehicle_damage", "scratch">>, <<"adas_sensor", UNKNOWN>>,
       <<"vehicle_type", "domestic">>, <<"evidence", "sufficient">>,
       <<"opponent_attitude", "amicable">>, <<"opponent_mentions_hospital", "no">>,
       <<"opponent_mentions_insurance", "yes">>, <<"notes", "memo">> >>

\* d[k] of a key the dict holds (a missing key raises KeyError: see KeyError).
Item(d, k) == d[CHOOSE i \in DOMAIN d : d[i][1] = k][2]

\* The keys rule_score and the fallback explanation index with f[k].
IndexedKeys ==
    {"injury", "pain_now", "hospital_visit", "opponent_mentions_hospital",
     "opponent_mentions_insurance", "evidence", "vehicle_damage", "adas_sensor",
     "vehicle_type", "opponent_attitude", "speed"}

\* f[k] raises KeyError for some k the reference pipeline indexes.
KeyError(f) == ~(IndexedKeys \subseteq Keys(f))

\* ------------------------------------------------ reference pipeline: nodes
\* normalize_extract: for k, v in DEFAULTS.items(): facts.setdefault(k, v)
\* (g: the dict after one pass of the loop, computed once).
RECURSIVE SetDefaults(_, _)
SetDefaults(f, i) ==
    IF i > Len(DEFAULTS) THEN f
    ELSE CHOOSE out \in { SetDefaults(g, i + 1) :
                            g \in {SetDefault(f, DEFAULTS[i][1], DEFAULTS[i][2])} } : TRUE

normalize_extract(f) == SetDefaults(f, 1)

\* One rule: the label is appended when the test holds.
Flag(test, label) == IF test THEN <<label>> ELSE <<>>

\* The scorer treating every injury value but "none" and "unknown" as a signal.
rule_score_red_any_injury(f) ==
       Flag(Item(f, "injury") \notin {"none", UNKNOWN}, "injury_or_pain_possible")
    \o Flag(Item(f, "pain_now") \in {"persistent", "worsening"}, "pain_persistent_or_worsening")
    \o Flag(Item(f, "hospital_visit") \in {"scheduled", "completed"}, "hospital_visit_done_or_planned")
    \o Flag(Item(f, "opponent_mentions_hospital") = "yes", "opponent_mentioned_hospital")
    \o Flag(Item(f, "opponent_mentions_insurance") = "yes", "opponent_mentioned_insurance")
    \o Flag(Item(f, "evidence") = "none", "evidence_missing")
    \o Flag(Item(f, "vehicle_damage") \in {"dented", "broken", UNKNOWN}, "damage_unclear_or_severe")

rule_score_red(f) ==
       Flag(Item(f, "injury") \in {"ambiguous", "present"}, "injury_or_pain_possible")
    \o Flag(Item(f, "pain_now") \in {"persistent", "worsening"}, "pain_persistent_or_worsening")
    \o Flag(Item(f, "hospital_visit") \in {"scheduled", "completed"}, "hospital_visit_done_or_planned")
    \o Flag(Item(f, "opponent_mentions_hospital") = "yes", "opponent_mentioned_hospital")
    \o Flag(Item(f, "opponent_mentions_insurance") = "yes", "opponent_mentioned_insurance")
    \o Flag(Item(f, "evidence") = "none", "evidence_missing")
    \o Flag(Item(f, "vehicle_damage") \in {"dented", "broken", UNKNOWN}, "damage_unclear_or_severe")

\* rule_score with the evidence rule tested before the speed rule.
rule_score_yellow_reordered(f) ==
       Flag(Item(f, "adas_sensor") \in {"present", UNKNOWN}, "adas_sensor_possible")
    \o Flag(Item(f, "vehicle_type") \in {"imported", "electric"}, "costly_vehicle_type")
    \o Flag(Item(f, "opponent_attitude") \in {"ambiguous", "aggressive"}, "opponent_attitude_risk")
    \o Flag(Item(f, "evidence") = "partial", "evidence_partial")
    \o Flag(Item(f, "speed") = UNKNOWN, "impact_unknown")

rule_score_yellow(f) ==
       Flag(Item(f, "adas_sensor") \in {"present", UNKNOWN}, "adas_sensor_possible")
    \o Flag(Item(f, "vehicle_type") \in {"imported", "electric"}, "costly_vehicle_type")
    \o Flag(Item(f, "opponent_attitude") \in {"ambiguous", "aggressive"}, "opponent_attitude_risk")
    \o Flag(Item(f, "speed") = UNKNOWN, "impact_unknown")
    \o Flag(Item(f, "evidence") = "partial", "evidence_partial")

\* The score with a yellow flag weighing half a red one.
rule_score_value_heavy_yellow(red, yellow) == Len(red) * 100 + Len(yellow) * 50

rule_score_value(red, yellow) == Len(red) * 100 + Len(yellow) * 10

\* risk_bucket with a lone yellow flag leaving GREEN.
risk_bucket_lone_yellow(red, yellow) ==
    IF Len(red) >= 1 THEN "RED"
    ELSE IF Len(yellow) >= 1 THEN "YELLOW"
    ELSE "GREEN"

risk_bucket(red, yellow) ==
    IF Len(red) >= 1 THEN "RED"
    ELSE IF Len(yellow) >= 2 THEN "YELLOW"
    ELSE "GREEN"

\* --------------------------------------------------- served engine: nodes
\* The engine's normalize node is lambda s: s.
engine_normalize(f) == f

\* The engine's red rules with an unknown vehicle_damage raising no flag.
engine_rule_score_red_known_damage(f) ==
       Flag(Get(f, "injury") \in {"ambiguous", "present"}, "injury_possible")
    \o Flag(Get(f, "pain_now") \in {"persistent", "worsening"}, "pain_persistent_or_worsening")
    \o Flag(Get(f, "hospital_visit") \in {"scheduled", "completed"}, "hospital_visit_done_or_planned")
    \o Flag(Get(f, "opponent_mentions_hospital") = "yes", "opponent_mentioned_hospital")
    \o Flag(Get(f, "opponent_mentions_insurance") = "yes", "opponent_mentioned_insurance")
    \o Flag(Get(f, "evidence") = "none", "evidence_missing")
    \o Flag(Get(f, "vehicle_damage") \in {"dented", "broken"}, "damage_unclear_or_severe")

engine_rule_score_red(f) ==
       Flag(Get(f, "injury") \in {"ambiguous", "present"}, "injury_possible")
    \o Flag(Get(f, "pain_now") \in {"persistent", "worsening"}, "pain_persistent_or_worsening")
    \o Flag(Get(f, "hospital_visit") \in {"scheduled", "completed"}, "hospital_visit_done_or_planned")
    \o Flag(Get(f, "opponent_mentions_hospital") = "yes", "opponent_mentioned_hospital")
    \o Flag(Get(f, "opponent_mentions_insurance") = "yes", "opponent_mentioned_insurance")
    \o Flag(Get(f, "evidence") = "none", "evidence_missing")
    \o Flag(Get(f, "vehicle_damage") \in {"dented", "broken", UNKNOWN}, "damage_unclear_or_severe")

engine_rule_score_yellow(f) ==
       Flag(Get(f, "adas_sensor") \in {"present", UNKNOWN}, "adas_sensor_possible")
    \o Flag(Get(f, "vehicle_type") \in {"imported", "electric"}, "costly_vehicle_type")
    \o Flag(Get(f, "opponent_attitude") \in {"ambiguous", "aggressive"}, "opponent_attitude_risk")
    \o Flag(Get(f, "speed") = UNKNOWN, "impact_unknown")
    \o Flag(Get(f, "evidence") = "partial", "evidence_partial")

\* The engine's score with the yellow flags unweighted.
engine_rule_score_value_unweighted(red, yellow) == Len(red) * 100 + Len(yellow)

engine_rule_score_value(red, yellow) == Len(red) * 100 + (Len(yellow) * 10)

engine_risk_bucket(red, yellow) ==
    IF Len(red) >= 1 THEN "RED"
    ELSE IF Len(yellow) >= 2 THEN "YELLOW"
    ELSE "GREEN"

\* ------------------------------------------------ text of the collaborator
(* A text is a sequence of tokens: a forbidden word of the source's pattern  *)
(* lists (haseyo, hasyeoya, gwonjang, bandeusi, mujogeon, chucheon, pilsu,  *)
(* gyeollon, and boheom/cheori, gaein/habui of the compound patterns), "w"   *)
(* for any other run of word characters, " " for white space and "." for    *)
(* punctuation. Adjacent word tokens form one word (no \b between them).     *)
IsSpace(t) == t = " "
IsWord(t) == t \notin {" ", "."}

\* A pattern \bword\b.
Word(t) == [wb |-> TRUE, toks |-> <<t>>]
\* A pattern a\s*b\s*c.
Phrase(a, b, c) == [wb |-> FALSE, toks |-> <<a, b, c>>]

FORBIDDEN_IMPERATIVES ==
    << Word("haseyo"), Word("hasyeoya"), Word("gwonjang"), Word("bandeusi"),
       Word("mujogeon"), Word("chucheon"), Word("pilsu"), Word("gyeollon"),
       Phrase("boheom", "cheori", "haseyo"), Phrase("gaein", "habui", "haseyo") >>

forbidden_patterns ==
    << Word("haseyo"), Word("hasyeoya"), Word("gwonjang"), Word("bandeusi"),
       Word("mujogeon"), Word("chucheon"), Word("pilsu"),
       Phrase("boheom", "cheori", "haseyo") >>

RECURSIVE SkipSpaces(_, _)
SkipSpaces(text, i) ==
    IF i <= Len(text) /\ IsSpace(text[i]) THEN SkipSpaces(text, i + 1) ELSE i

\* Where toks[p..] matched from text[i] on ends (0: no match), \s* between tokens.
RECURSIVE MatchToks(_, _, _, _)
MatchToks(toks, p, text, i) ==
    IF p > Len(toks) THEN i - 1
    ELSE LET j == IF p > 1 THEN SkipSpaces(text, i) ELSE i
         IN  IF j <= Len(text) /\ text[j] = toks[p]
             THEN MatchToks(toks, p + 1, text, j + 1)
             ELSE 0

\* The last index of a match of pat starting at text[i], or 0.
MatchEnd(pat, text, i) ==
    IF pat.wb
    THEN IF /\ text[i] = pat.toks[1]
            /\ (i = 1 \/ ~IsWord(text[i - 1]))
            /\ (i = Len(text) \/ ~IsWord(text[i + 1]))
         THEN i ELSE 0
    ELSE MatchToks(pat.toks, 1, text, i)

\* re.search(pat, text)
re_search(pat, text) == \E i \in DOMAIN text : MatchEnd(pat, text, i) > 0

\* re.sub(pat, "", text): the non-overlapping matches, leftmost first, removed.
RECURSIVE SubFrom(_, _, _)
SubFrom(pat, text, i) ==
    IF i > Len(text) THEN <<>>
    ELSE LET j == MatchEnd(pat, text, i)
         IN  IF j > 0 THEN SubFrom(pat, text, j + 1)
             ELSE <<text[i]>> \o SubFrom(pat, text, i + 1)

re_sub(pat, text) == SubFrom(pat, text, 1)

\* for pat in pats: text = re.sub(pat, "", text)
\* (t: the text after one pass of the loop, computed once).
RECURSIVE SubAll(_, _, _)
SubAll(pats, p, text) ==
    IF p > Len(pats) THEN text
    ELSE CHOOSE out \in { SubAll(pats, p + 1, t) : t \in {re_sub(pats[p], text)} } : TRUE

contains_imperative(text) ==
    \E p \in DOMAIN FORBIDDEN_IMPERATIVES : re_search(FORBIDDEN_IMPERATIVES[p], text)

safe_strip_imperatives(text) == SubAll(FORBIDDEN_IMPERATIVES, 1, text)

\* str.strip()
RECURSIVE LStrip(_)
LStrip(text) ==
    IF text # <<>> /\ IsSpace(Head(text)) THEN LStrip(Tail(text)) ELSE text

strip(text) == Reverse(LStrip(Reverse(LStrip(text))))

\* ---------------------------------------------------- explanation stage
\* The reference pipeline's template (no collaborator), line by line.
llm_explain_fallback(f, bucket, red, yellow) ==
    LET positives ==
               Flag(Item(f, "injury") = "none", "no_injury_signal")
            \o Flag(Item(f, "pain_now") = "none", "no_pain_now")
            \o Flag(Item(f, "hospital_visit") = "none", "no_hospital_visit")
            \o Flag(Item(f, "evidence") = "sufficient", "evidence_sufficient")
            \o Flag(Item(f, "vehicle_damage") \in {"none", "scratch"}, "damage_cosmetic")
    IN     <<"status:", bucket, "", "positives:">>
        \o (IF positives # <<>> THEN positives ELSE <<"more_information_needed">>)
        \o <<"", "risks:">>
        \o (IF red # <<>> THEN <<"red:">> \o red ELSE <<>>)
        \o (IF yellow # <<>> THEN <<"yellow:">> \o yellow ELSE <<>>)
        \o (IF red = <<>> /\ yellow = <<>> THEN <<"no_risk_signal">> ELSE <<>>)
        \o <<"", "note:", "final_choice_and_responsibility_are_the_users">>

\* The reference pipeline's handling of the collaborator's text.
llm_explain_text(text) ==
    CHOOSE md \in { strip(t) : t \in {IF contains_imperative(text)
                                       THEN safe_strip_imperatives(text)
                                       ELSE text} } : TRUE

\* The engine's template (no collaborator) and handling of the text.
engine_llm_explain_fallback(bucket) == <<"status:", bucket>>

engine_llm_explain_text(text) ==
    CHOOSE md \in { strip(t) : t \in {SubAll(forbidden_patterns, 1, text)} } : TRUE

\* ------------------------------------------------------ question stage
\* The conditional edge after explain (reference): keys whose value is unknown.
need_questions(f, bucket) ==
    LET unknowns == KeysWithValue(f, UNKNOWN)
    IN  bucket # "GREEN" /\ Len(unknowns) > 0

priority ==
    << "injury", "pain_now", "hospital_visit", "opponent_mentions_hospital",
       "opponent_mentions_insurance", "vehicle_damage", "evidence", "adas_sensor",
       "vehicle_type", "opponent_attitude", "speed" >>

\* targets = [k for k in priority if k in unknowns][:3]
llm_questions_targets(f) ==
    LET unknowns == KeysWithValue(f, UNKNOWN)
    IN  Take(SelectSeq(priority, LAMBDA k : k \in Range(unknowns)), 3)

\* The canned question of each field.
qmap(t) ==
    CASE t = "injury" -> "ask_injury"
      [] t = "pain_now" -> "ask_pain_now"
      [] t = "hospital_visit" -> "ask_hospital_visit"
      [] t = "opponent_mentions_hospital" -> "ask_opponent_mentions_hospital"
      [] t = "opponent_mentions_insurance" -> "ask_opponent_mentions_insurance"
      [] t = "vehicle_damage" -> "ask_vehicle_damage"
      [] t = "evidence" -> "ask_evidence"
      [] t = "adas_sensor" -> "ask_adas_sensor"
      [] t = "vehicle_type" -> "ask_vehicle_type"
      [] t = "opponent_attitude" -> "ask_opponent_attitude"
      [] t = "speed" -> "ask_speed"

\* [qmap[t] for t in targets if t in qmap]
llm_questions_fallback(targets) ==
    LET known == SelectSeq(targets, LAMBDA t : t \in Range(priority))
    IN  [i \in DOMAIN known |-> qmap(known[i])]

\* line.strip("- ").strip() on the lines the collaborator may return.
StripLine(line) ==
    CASE line = "- " -> ""
      [] line = "- q1" -> "q1"
      [] line = "q3 -" -> "q3"
      [] OTHER -> line

\* The first three non-empty stripped lines.
RECURSIVE ParseLines(_, _, _)
ParseLines(lines, i, qs) ==
    IF i > Len(lines) \/ Len(qs) >= 3 THEN qs
    ELSE LET line == StripLine(lines[i])
         IN  ParseLines(lines, i + 1, IF line = "" THEN qs ELSE Append(qs, line))

llm_questions_parse(lines) == ParseLines(lines, 1, <<>>)

\* The conditional edge after explain (engine): values equal to unknown.
engine_need_questions_condition(f, bucket) ==
    LET unknowns == KeysWithValue(f, UNKNOWN)
    IN  bucket # "GREEN" /\ unknowns # <<>>

\* f"'{field}' ..." : the engine's question names the field.
engine_question(field) ==
    CASE field = "accident_type" -> "confirm_accident_type"
      [] field = "speed" -> "confirm_speed"
      [] field = "injury" -> "confirm_injury"
      [] field = "pain_now" -> "confirm_pain_now"
      [] field = "hospital_visit" -> "confirm_hospital_visit"
      [] field = "vehicle_damage" -> "confirm_vehicle_damage"
      [] field = "adas_sensor" -> "confirm_adas_sensor"
      [] field = "vehicle_type" -> "confirm_vehicle_type"
      [] field = "evidence" -> "confirm_evidence"
      [] field = "opponent_attitude" -> "confirm_opponent_attitude"
      [] field = "opponent_mentions_hospital" -> "confirm_opponent_mentions_hospital"
      [] field = "opponent_mentions_insurance" -> "confirm_opponent_mentions_insurance"
      [] field = "notes" -> "confirm_notes"
      [] field = "rag_context" -> "confirm_rag_context"

\* unknown_fields[:2]
engine_llm_questions_fields(f) == Take(KeysWithValue(f, UNKNOWN), 2)

engine_llm_questions(f) ==
    LET fields == engine_llm_questions_fields(f)
    IN  [i \in DOMAIN fields |-> engine_question(fields[i])]

\* ------------------------------------------------------- report composer
compose(explanation, bucket, qs) ==
       explanation
    \o <<"", "--", "", "record_keeping:", "photos", "dashcam_original",
         "written_mutual_confirmation", "">>
    \o <<"conversion_triggers:", "pain_or_hospital_mentioned", "repair_cost_grows",
         "opponent_attitude_changes", "evidence_lost", "">>
    \o (IF qs # <<>> THEN <<"questions:">> \o qs \o <<"">> ELSE <<>>)
    \o <<"final_choice_and_responsibility_are_the_users">>

engine_compose(explanation, bucket, red, qs) ==
       <<"risk_status:", bucket, "summary:">> \o explanation
    \o (IF red # <<>> THEN <<"detected_risks:">> \o red ELSE <<>>)
    \o (IF qs # <<>> THEN <<"please_confirm:">> \o qs ELSE <<>>)

\* ------------------------------------------------------- caller inputs
\* A dict as a function from its keys, and back in a given key order.
AsFunction(d) == [k \in Keys(d) |-> Item(d, k)]

AsDict(fn, order) ==
    LET ks == SelectSeq(order, LAMBDA k : k \in DOMAIN fn)
    IN  [i \in DOMAIN ks |-> <<ks[i], fn[ks[i]]>>]

\* What a caller may pass for a key: a token of the field's vocabulary, a value
\* outside it, or nothing; for the added key, the retrieved text or nothing.
Choices(k) ==
    IF k = RagKey THEN {UNKNOWN, "context", Absent}
    ELSE IF k = "notes" THEN Vocabulary(k) \cup {Absent}
    ELSE Vocabulary(k) \cup {"not_in_vocabulary", Absent}

\* The ways to set the keys ks.
RECURSIVE Changes(_)
Changes(ks) ==
    IF ks = {} THEN {<<>>}
    ELSE LET k == CHOOSE x \in ks : TRUE
         IN  {(k :> v) @@ ch : v \in Choices(k), ch \in Changes(ks \ {k})}

Apply(base, ch) ==
    LET ks == (DOMAIN base \cup DOMAIN ch) \ {k \in DOMAIN ch : ch[k] = Absent}
    IN  [k \in ks |-> IF k \in DOMAIN ch THEN ch[k] ELSE base[k]]

\* Facts with no flag and nothing unknown.
CleanFacts ==
    << <<"accident_type", "parked">>, <<"speed", "low">>, <<"injury", "none">>,
       <<"pain_now", "none">>, <<"hospital_visit", "none">>,
       <<"vehicle_damage", "scratch">>, <<"adas_sensor", "none">>,
       <<"vehicle_type", "domestic">>, <<"evidence", "sufficient">>,
       <<"opponent_attitude", "amicable">>, <<"opponent_mentions_hospital", "no">>,
       <<"opponent_mentions_insurance", "no">>, <<"notes", "">> >>

\* Facts with two yellow flags and no red one (evidence partial, speed unknown).
YellowFacts ==
    << <<"accident_type", "parked">>, <<"speed", UNKNOWN>>, <<"injury", "none">>,
       <<"pain_now", "none">>, <<"hospital_visit", "none">>,
       <<"vehicle_damage", "none">>, <<"adas_sensor", "none">>,
       <<"vehicle_type", "domestic">>, <<"evidence", "partial">>,
       <<"opponent_attitude", "amicable">>, <<"opponent_mentions_hospital", "no">>,
       <<"opponent_mentions_insurance", "no">>, <<"notes", "">> >>

\* Facts with all five yellow flags and no red one.
AllYellowFacts ==
    << <<"accident_type", "lane_change">>, <<"speed", UNKNOWN>>, <<"injury", "none">>,
       <<"pain_now", "mild">>, <<"hospital_visit", "none">>,
       <<"vehicle_damage", "scratch">>, <<"adas_sensor", "present">>,
       <<"vehicle_type", "imported">>, <<"evidence", "partial">>,
       <<"opponent_attitude", "ambiguous">>, <<"opponent_mentions_hospital", "no">>,
       <<"opponent_mentions_insurance", "no">>, <<"notes", "memo">> >>

\* Facts with every field at a flagged value and nothing unknown.
WorstFacts ==
    << <<"accident_type", "rear_end">>, <<"speed", "high">>, <<"injury", "present">>,
       <<"pain_now", "worsening">>, <<"hospital_visit", "completed">>,
       <<"vehicle_damage", "broken">>, <<"adas_sensor", "present">>,
       <<"vehicle_type", "electric">>, <<"evidence", "none">>,
       <<"opponent_attitude", "aggressive">>, <<"opponent_mentions_hospital", "yes">>,
       <<"opponent_mentions_insurance", "yes">>, <<"notes", "memo">> >>

\* The inputs are these scenarios, the demo's facts, the all-unknown facts and
\* the empty mapping, each with up to MaxChanged keys set otherwise.
BaseScenarios ==
    {AsFunction(DemoFacts), AsFunction(CleanFacts), AsFunction(YellowFacts),
     AsFunction(WorstFacts), AsFunction(AllYellowFacts), AsFunction(DEFAULTS), <<>>}

\* The key orders a caller's dict comes in: the request's, and its reverse.
CallerOrders == {RequestOrder, Reverse(RequestOrder)}

InputsOf(keysets) ==
    UNION { UNION { { AsDict(Apply(base, ch), order) : order \in CallerOrders }
                    : ch \in Changes(ks) }
            : base \in BaseScenarios, ks \in keysets }

Inputs == InputsOf({x \in SUBSET Range(RequestOrder) : Cardinality(x) <= MaxChanged})

\* The inputs of the runs that have a collaborator client: those of Inputs that
\* differ from a scenario in no more than a single key. The collaborator's
\* texts multiply these runs, and no text depends on the facts.
ClientInputs == Inputs \cap InputsOf({{}} \cup {{k} : k \in Range(RequestOrder)})

\* What the collaborator may answer to the explanation request.
LLMExplainTexts ==
    { <<"w", " ", "bandeusi", " ", "w", ".">>,
      <<" ", "boheom", " ", "cheori", "haseyo", " ">>,
      <<"boheom", "cheori", "boheom", "cheori", "haseyo", "haseyo">> }

\* What it may answer to the question request, as lines.
LLMQuestionTexts ==
    { <<>>, <<"- q1">>, <<"- q1", "", "q2", "- ", "q3 -", "q4">> }

\* ------------------------------------------------------------- the state
VARIABLES
    variant,    \* which pipeline runs: "engine" or "reference"
    llm,        \* whether a collaborator client was built
    input,      \* the facts as the caller passed them
    state,      \* the graph's State dict (values of the keys in present)
    present,    \* the keys the State dict holds
    pc,         \* the node to run next, "END", or "failed" (an exception left invoke)
    executed,   \* the nodes run so far, in order
    caller,     \* the caller's facts dict (the object passed in), as it is now
    calls,      \* the nodes that have invoked the collaborator so far, in order
    peer        \* a second request on the same engine instance, or NoPeer

vars == <<variant, llm, input, state, present, pc, executed, caller, calls, peer>>

StateKeys ==
    {"facts", "flags_red", "flags_yellow", "risk_score", "risk_bucket",
     "explanation_md", "followup_questions", "final_answer"}

\* No second request: the single-run specification.
NoPeer == [input |-> <<>>, state |-> <<>>, present |-> {}, pc |-> "idle"]

\* run_analysis / run_demo: initial_state = {"facts": facts}
Init ==
    /\ variant \in {"engine", "reference"}
    /\ llm \in BOOLEAN
    /\ input \in Inputs
    /\ llm => input \in ClientInputs
    /\ state = [facts |-> input, flags_red |-> <<>>, flags_yellow |-> <<>>,
                risk_score |-> 0, risk_bucket |-> "", explanation_md |-> <<>>,
                followup_questions |-> <<>>, final_answer |-> <<>>]
    /\ present = {"facts"}
    /\ pc = "normalize"
    /\ executed = <<>>
    /\ caller = input
    /\ calls = <<>>
    /\ peer = NoPeer

\* state.get(key, default)
StateGet(key, default) == IF key \in present THEN state[key] ELSE default

Ran(node) == executed' = Append(executed, node)

\* llm.invoke(...) is called in the node (whether it returns or raises).
Invoked(node) == calls' = Append(calls, node)

\* An exception leaves the node: invoke raises, the state is not returned.
Raise(node) ==
    /\ pc' = "failed"
    /\ Ran(node)
    /\ UNCHANGED <<variant, llm, input, state, present, caller, peer>>

\* -------------------------------------------- reference pipeline: actions
\* The normalize node returning the facts as they came (no default filled in).
Ref_normalize_identity ==
    /\ variant = "reference" /\ pc = "normalize"
    /\ pc' = "rules"
    /\ Ran("normalize")
    /\ UNCHANGED <<variant, llm, input, state, present, caller, calls, peer>>

Ref_normalize ==
    /\ variant = "reference" /\ pc = "normalize"
    /\ state' = [state EXCEPT !.facts = normalize_extract(StateGet("facts", <<>>))]
    /\ present' = present \cup {"facts"}
    /\ caller' = normalize_extract(caller)
    /\ pc' = "rules"
    /\ Ran("normalize")
    /\ UNCHANGED <<variant, llm, input, calls, peer>>

Ref_rules ==
    /\ variant = "reference" /\ pc = "rules"
    /\ IF KeyError(state.facts)
       THEN Raise("rules") /\ UNCHANGED calls
       ELSE LET red == rule_score_red(state.facts)
                yellow == rule_score_yellow(state.facts)
            IN  /\ state' = [state EXCEPT !.flags_red = red,
                                          !.flags_yellow = yellow,
                                          !.risk_score = rule_score_value(red, yellow)]
                /\ present' = present \cup {"flags_red", "flags_yellow", "risk_score"}
                /\ pc' = "bucket"
                /\ Ran("rules")
                /\ UNCHANGED <<variant, llm, input, caller, calls, peer>>

Ref_bucket ==
    /\ variant = "reference" /\ pc = "bucket"
    /\ state' = [state EXCEPT !.risk_bucket =
                    risk_bucket(StateGet("flags_red", <<>>), StateGet("flags_yellow", <<>>))]
    /\ present' = present \cup {"risk_bucket"}
    /\ pc' = "explain"
    /\ Ran("bucket")
    /\ UNCHANGED <<variant, llm, input, caller, calls, peer>>

\* The node, then the conditional edge that follows it.
Ref_explained(md) ==
    /\ state' = [state EXCEPT !.explanation_md = md]
    /\ present' = present \cup {"explanation_md"}
    /\ pc' = IF need_questions(state.facts, state.risk_bucket)
             THEN "questions" ELSE "compose"
    /\ Ran("explain")
    /\ UNCHANGED <<variant, llm, input, caller, peer>>

Ref_explain ==
    /\ variant = "reference" /\ pc = "explain"
    /\ \/ /\ ~llm
          /\ Ref_explained(llm_explain_fallback(state.facts, state.risk_bucket,
                 StateGet("flags_red", <<>>), StateGet("flags_yellow", <<>>)))
          /\ UNCHANGED calls
       \/ /\ llm
          /\ \E text \in LLMExplainTexts : Ref_explained(llm_explain_text(text))
          /\ Invoked("explain")
       \/ /\ llm
          /\ Raise("explain")
          /\ Invoked("explain")

Ref_asked(qs) ==
    /\ state' = [state EXCEPT !.followup_questions = qs]
    /\ present' = present \cup {"followup_questions"}
    /\ pc' = "compose"
    /\ Ran("questions")
    /\ UNCHANGED <<variant, llm, input, caller, peer>>

Ref_questions ==
    /\ variant = "reference" /\ pc = "questions"
    /\ LET targets == llm_questions_targets(state.facts)
       IN  \/ /\ targets = <<>>
              /\ Ref_asked(<<>>)
              /\ UNCHANGED calls
           \/ /\ targets # <<>> /\ ~llm
              /\ Ref_asked(llm_questions_fallback(targets))
              /\ UNCHANGED calls
           \/ /\ targets # <<>> /\ llm
              /\ \E lines \in LLMQuestionTexts : Ref_asked(llm_questions_parse(lines))
              /\ Invoked("questions")
           \/ /\ targets # <<>> /\ llm
              /\ Raise("questions")
              /\ Invoked("questions")

\* The composer also clearing the score.
Ref_compose_resets_score ==
    /\ variant = "reference" /\ pc = "compose"
    /\ state' = [state EXCEPT !.risk_score = 0, !.final_answer =
                    compose(StateGet("explanation_md", <<"status:", state.risk_bucket>>),
                            state.risk_bucket, StateGet("followup_questions", <<>>))]
    /\ present' = present \cup {"final_answer"}
    /\ pc' = "END"
    /\ Ran("compose")
    /\ UNCHANGED <<variant, llm, input, caller, calls, peer>>

Ref_compose ==
    /\ variant = "reference" /\ pc = "compose"
    /\ state' = [state EXCEPT !.final_answer =
                    compose(StateGet("explanation_md", <<"status:", state.risk_bucket>>),
                            state.risk_bucket, StateGet("followup_questions", <<>>))]
    /\ present' = present \cup {"final_answer"}
    /\ pc' = "END"
    /\ Ran("compose")
    /\ UNCHANGED <<variant, llm, input, caller, calls, peer>>

\* ------------------------------------------------ served engine: actions
Eng_normalize ==
    /\ variant = "engine" /\ pc = "normalize"
    /\ state' = [state EXCEPT !.facts = engine_normalize(state.facts)]
    /\ pc' = "rules"
    /\ Ran("normalize")
    /\ UNCHANGED <<variant, llm, input, present, caller, calls, peer>>

Eng_rules ==
    /\ variant = "engine" /\ pc = "rules"
    /\ LET red == engine_rule_score_red(state.facts)
           yellow == engine_rule_score_yellow(state.facts)
       IN  state' = [state EXCEPT !.flags_red = red,
                                  !.flags_yellow = yellow,
                                  !.risk_score = engine_rule_score_value(red, yellow)]
    /\ present' = present \cup {"flags_red", "flags_yellow", "risk_score"}
    /\ pc' = "bucket"
    /\ Ran("rules")
    /\ UNCHANGED <<variant, llm, input, caller, calls, peer>>

Eng_bucket ==
    /\ variant = "engine" /\ pc = "bucket"
    /\ state' = [state EXCEPT !.risk_bucket =
                    engine_risk_bucket(StateGet("flags_red", <<>>),
                                       StateGet("flags_yellow", <<>>))]
    /\ present' = present \cup {"risk_bucket"}
    /\ pc' = "explain"
    /\ Ran("bucket")
    /\ UNCHANGED <<variant, llm, input, caller, calls, peer>>

\* The explain node with a collaborator's text overriding the bucket.
Eng_explained_overrides(md) ==
    /\ state' = [state EXCEPT !.explanation_md = md,
                              !.risk_bucket = IF md = engine_llm_explain_fallback(@)
                                               THEN @ ELSE "RED"]
    /\ present' = present \cup {"explanation_md"}
    /\ pc' = IF engine_need_questions_condition(state.facts, state.risk_bucket)
             THEN "questions" ELSE "compose"
    /\ Ran("explain")
    /\ UNCHANGED <<variant, llm, input, caller, peer>>

Eng_explained(md) ==
    /\ state' = [state EXCEPT !.explanation_md = md]
    /\ present' = present \cup {"explanation_md"}
    /\ pc' = IF engine_need_questions_condition(state.facts, state.risk_bucket)
             THEN "questions" ELSE "compose"
    /\ Ran("explain")
    /\ UNCHANGED <<variant, llm, input, caller, peer>>

Eng_explain ==
    /\ variant = "engine" /\ pc = "explain"
    /\ \/ /\ ~llm
          /\ Eng_explained(engine_llm_explain_fallback(state.risk_bucket))
          /\ UNCHANGED calls
       \/ /\ llm
          /\ \E text \in LLMExplainTexts : Eng_explained(engine_llm_explain_text(text))
          /\ Invoked("explain")
       \/ /\ llm
          /\ Raise("explain")
          /\ Invoked("explain")

\* The questions node with its edge leading to END instead of compose.
Eng_questions_to_end ==
    /\ variant = "engine" /\ pc = "questions"
    /\ state' = [state EXCEPT !.followup_questions = engine_llm_questions(state.facts)]
    /\ present' = present \cup {"followup_questions"}
    /\ pc' = "END"
    /\ Ran("questions")
    /\ UNCHANGED <<variant, llm, input, caller, calls, peer>>

Eng_questions ==
    /\ variant = "engine" /\ pc = "questions"
    /\ state' = [state EXCEPT !.followup_questions = engine_llm_questions(state.facts)]
    /\ present' = present \cup {"followup_questions"}
    /\ pc' = "compose"
    /\ Ran("questions")
    /\ UNCHANGED <<variant, llm, input, caller, calls, peer>>

\* The composer also clearing the stored explanation.
Eng_compose_rewrites_explanation ==
    /\ variant = "engine" /\ pc = "compose"
    /\ state' = [state EXCEPT !.explanation_md = <<>>,
                              !.final_answer =
                    engine_compose(state.explanation_md, state.risk_bucket,
                                   StateGet("flags_red", <<>>),
                                   StateGet("followup_questions", <<>>))]
    /\ present' = present \cup {"final_answer"}
    /\ pc' = "END"
    /\ Ran("compose")
    /\ UNCHANGED <<variant, llm, input, caller, calls, peer>>

Eng_compose ==
    /\ variant = "engine" /\ pc = "compose"
    /\ state' = [state EXCEPT !.final_answer =
                    engine_compose(state.explanation_md, state.risk_bucket,
                                   StateGet("flags_red", <<>>),
                                   StateGet("followup_questions", <<>>))]
    /\ present' = present \cup {"final_answer"}
    /\ pc' = "END"
    /\ Ran("compose")
    /\ UNCHANGED <<variant, llm, input, caller, calls, peer>>

Next ==
    \/ Ref_normalize \/ Ref_rules \/ Ref_bucket
    \/ Ref_explain \/ Ref_questions \/ Ref_compose
    \/ Eng_normalize \/ Eng_rules \/ Eng_bucket
    \/ Eng_explain \/ Eng_questions \/ Eng_compose

Spec == Init /\ [][Next]_vars

\* The runs whose completion is at issue are those without a collaborator
\* client: they start from every input; the runs with a client start from the
\* scenarios as they are.
FairInit == Init /\ (llm => input \in {AsDict(base, RequestOrder) : base \in BaseScenarios})

\* graph.invoke runs the nodes one after another until END or an exception: a
\* run that can take a step takes it.
FairSpec == FairInit /\ [][Next]_vars /\ WF_vars(Next)

\* ------------------------------------- two requests on one engine instance
(* The API layer builds one AccidentDecisionEngine and every request calls its *)
(* run_analysis. The instance holds the client (llm), the compiled graph and *)
(* the pattern list; graph.invoke builds the State of a run from the dict it  *)
(* is given. The first request is the run of the variables above; peer is a   *)
(* second request, stepping through the same nodes on its own State.         *)

\* run_analysis(f): the request before its first node.
Request(f) ==
    [input |-> f,
     state |-> [facts |-> f, flags_red |-> <<>>, flags_yellow |-> <<>>,
                risk_score |-> 0, risk_bucket |-> "", explanation_md |-> <<>>,
                followup_questions |-> <<>>, final_answer |-> <<>>],
     present |-> {"facts"},
     pc |-> "normalize"]

\* state.get(key, default) on a request's State.
RequestGet(r, key, default) == IF key \in r.present THEN r.state[key] ELSE default

\* The node's return value merged into the request's State; on to node next.
Update(r, s, keys, next) == [r EXCEPT !.state = s, !.present = @ \cup keys, !.pc = next]

Peer_normalize(r) ==
    Update(r, [r.state EXCEPT !.facts = engine_normalize(@)], {}, "rules")

\* The rules node with its two lists kept between requests (the first
\* request's flags are still in them).
Peer_rules_shared_lists(r) ==
    LET red == state.flags_red \o engine_rule_score_red(r.state.facts)
        yellow == state.flags_yellow \o engine_rule_score_yellow(r.state.facts)
    IN  Update(r, [r.state EXCEPT !.flags_red = red, !.flags_yellow = yellow,
                                  !.risk_score = engine_rule_score_value(red, yellow)],
               {"flags_red", "flags_yellow", "risk_score"}, "bucket")

Peer_rules(r) ==
    LET red == engine_rule_score_red(r.state.facts)
        yellow == engine_rule_score_yellow(r.state.facts)
    IN  Update(r, [r.state EXCEPT !.flags_red = red, !.flags_yellow = yellow,
                                  !.risk_score = engine_rule_score_value(red, yellow)],
               {"flags_red", "flags_yellow", "risk_score"}, "bucket")

Peer_bucket(r) ==
    Update(r, [r.state EXCEPT !.risk_bucket =
                   engine_risk_bucket(RequestGet(r, "flags_red", <<>>),
                                      RequestGet(r, "flags_yellow", <<>>))],
           {"risk_bucket"}, "explain")

\* The explain node's outcomes, each followed by the conditional edge.
Peer_explain(r) ==
    LET next == IF engine_need_questions_condition(r.state.facts, r.state.risk_bucket)
                THEN "questions" ELSE "compose"
        mds == IF llm THEN {engine_llm_explain_text(text) : text \in LLMExplainTexts}
               ELSE {engine_llm_explain_fallback(r.state.risk_bucket)}
    IN  {Update(r, [r.state EXCEPT !.explanation_md = md], {"explanation_md"}, next)
            : md \in mds}
        \cup (IF llm THEN {[r EXCEPT !.pc = "failed"]} ELSE {})

Peer_questions(r) ==
    Update(r, [r.state EXCEPT !.followup_questions = engine_llm_questions(r.state.facts)],
           {"followup_questions"}, "compose")

Peer_compose(r) ==
    Update(r, [r.state EXCEPT !.final_answer =
                   engine_compose(r.state.explanation_md, r.state.risk_bucket,
                                  RequestGet(r, "flags_red", <<>>),
                                  RequestGet(r, "followup_questions", <<>>))],
           {"final_answer"}, "END")

\* The requests after one more node of request r.
PeerSteps(r) ==
    CASE r.pc = "normalize" -> {Peer_normalize(r)}
      [] r.pc = "rules" -> {Peer_rules(r)}
      [] r.pc = "bucket" -> {Peer_bucket(r)}
      [] r.pc = "explain" -> Peer_explain(r)
      [] r.pc = "questions" -> {Peer_questions(r)}
      [] r.pc = "compose" -> {Peer_compose(r)}
      [] OTHER -> {}

\* The second request runs its next node; the first request's run is untouched.
Peer_step ==
    /\ \E r \in PeerSteps(peer) : peer' = r
    /\ UNCHANGED <<variant, llm, input, state, present, pc, executed, caller, calls>>

\* The facts of the concurrent requests: the scenarios, in the request's order.
ConcurrentInputs == {AsDict(base, RequestOrder) : base \in BaseScenarios}

ConcurrentInit ==
    /\ variant = "engine"
    /\ llm \in BOOLEAN
    /\ input \in ConcurrentInputs
    /\ state = Request(input).state
    /\ present = {"facts"}
    /\ pc = "normalize"
    /\ executed = <<>>
    /\ caller = input
    /\ calls = <<>>
    /\ peer \in {Request(f) : f \in ConcurrentInputs}

ConcurrentNext ==
    \/ Eng_normalize \/ Eng_rules \/ Eng_bucket
    \/ Eng_explain \/ Eng_questions \/ Eng_compose
    \/ Peer_step

ConcurrentSpec == ConcurrentInit /\ [][ConcurrentNext]_vars

\* ================================================================ claims
\* What the claims read off a run.
Executed(node) == node \in Range(executed)

Bucket == state.risk_bucket

Questions == StateGet("followup_questions", <<>>)

\* A fixed attribute of the facts holds the unknown sentinel.
AttributeUnknown(f) == \E k \in FixedKeys : Get(f, k) = UNKNOWN

\* The RED and YELLOW predicate tables, in declaration order.
RedPredicates ==
    << [field |-> "injury", values |-> {"ambiguous", "present"}],
       [field |-> "pain_now", values |-> {"persistent", "worsening"}],
       [field |-> "hospital_visit", values |-> {"scheduled", "completed"}],
       [field |-> "opponent_mentions_hospital", values |-> {"yes"}],
       [field |-> "opponent_mentions_insurance", values |-> {"yes"}],
       [field |-> "evidence", values |-> {"none"}],
       [field |-> "vehicle_damage", values |-> {"dented", "broken", UNKNOWN}] >>

YellowPredicates ==
    << [field |-> "adas_sensor", values |-> {"present", UNKNOWN}],
       [field |-> "vehicle_type", values |-> {"imported", "electric"}],
       [field |-> "opponent_attitude", values |-> {"ambiguous", "aggressive"}],
       [field |-> "speed", values |-> {UNKNOWN}],
       [field |-> "evidence", values |-> {"partial"}] >>

\* The fields of the predicates of a table that the facts satisfy, in order.
SatisfiedFields(table, f) ==
    LET sat == SelectSeq(table, LAMBDA p : Get(f, p.field) \in p.values)
    IN  [i \in DOMAIN sat |-> sat[i].field]

\* The field whose predicate a flag label names.
FlagField(label) ==
    CASE label \in {"injury_possible", "injury_or_pain_possible"} -> "injury"
      [] label = "pain_persistent_or_worsening" -> "pain_now"
      [] label = "hospital_visit_done_or_planned" -> "hospital_visit"
      [] label = "opponent_mentioned_hospital" -> "opponent_mentions_hospital"
      [] label = "opponent_mentioned_insurance" -> "opponent_mentions_insurance"
      [] label \in {"evidence_missing", "evidence_partial"} -> "evidence"
      [] label = "damage_unclear_or_severe" -> "vehicle_damage"
      [] label = "adas_sensor_possible" -> "adas_sensor"
      [] label = "costly_vehicle_type" -> "vehicle_type"
      [] label = "opponent_attitude_risk" -> "opponent_attitude"
      [] label = "impact_unknown" -> "speed"
      [] OTHER -> "?"

FlagFields(flags) == [i \in DOMAIN flags |-> FlagField(flags[i])]

\* C1: once the Bucket Classifier has run, the bucket is RED when there is at
\* least one red flag, otherwise YELLOW when there are at least two yellow
\* flags, otherwise GREEN (so no red and at most one yellow flag give GREEN):
\* a function of the two counts alone.
C1_BucketByCounts ==
    "risk_bucket" \in present =>
        LET r == Len(state.flags_red)
            y == Len(state.flags_yellow)
        IN  /\ r >= 1 => Bucket = "RED"
            /\ (r = 0 /\ y >= 2) => Bucket = "YELLOW"
            /\ (r = 0 /\ y <= 1) => Bucket = "GREEN"

\* A lone yellow flag, classified GREEN.
C1_Witness ==
    /\ "risk_bucket" \in present
    /\ Len(state.flags_red) = 0 /\ Len(state.flags_yellow) = 1
    /\ Bucket = "GREEN"

\* C2: in every state after the Rule Scorer has run, to the end of the run,
\* risk_score is 100 times the number of red flags plus 10 times the number of
\* yellow flags.
C2_ScoreFormula ==
    "risk_score" \in present =>
        state.risk_score = 100 * Len(state.flags_red) + 10 * Len(state.flags_yellow)

\* The end of a run with seven red and three yellow flags.
C2_Witness ==
    /\ pc = "END"
    /\ Len(state.flags_red) = 7 /\ Len(state.flags_yellow) = 3
    /\ state.risk_score = 730

\* C3: flags_red holds exactly one entry per RED predicate the facts satisfy,
\* and no other, in the declaration order of the predicates.
C3_RedFlags ==
    "flags_red" \in present =>
        FlagFields(state.flags_red) = SatisfiedFields(RedPredicates, state.facts)

\* Every RED predicate satisfied (the last by an unknown vehicle_damage).
C3_Witness ==
    /\ "flags_red" \in present
    /\ Len(state.flags_red) = 7
    /\ Get(state.facts, "vehicle_damage") = UNKNOWN

\* C4: flags_yellow holds exactly one entry per YELLOW predicate the facts
\* satisfy, and no other, in the declaration order of the predicates.
C4_YellowFlags ==
    "flags_yellow" \in present =>
        FlagFields(state.flags_yellow) = SatisfiedFields(YellowPredicates, state.facts)

\* The speed and the evidence predicates both satisfied, in that order.
C4_Witness ==
    /\ "flags_yellow" \in present
    /\ Get(state.facts, "speed") = UNKNOWN /\ Get(state.facts, "evidence") = "partial"
    /\ Len(state.flags_yellow) >= 2

\* What each variant computes from a facts mapping (collaborator unavailable),
\* for the claims that compare a run with the run on another input.
PipelineFacts(v, f) == IF v = "engine" THEN engine_normalize(f) ELSE normalize_extract(f)

PipelineRed(v, f) ==
    IF v = "engine" THEN engine_rule_score_red(PipelineFacts(v, f))
    ELSE rule_score_red(PipelineFacts(v, f))

PipelineYellow(v, f) ==
    IF v = "engine" THEN engine_rule_score_yellow(PipelineFacts(v, f))
    ELSE rule_score_yellow(PipelineFacts(v, f))

PipelineScore(v, f) ==
    LET g == PipelineFacts(v, f)
    IN  IF v = "engine"
        THEN engine_rule_score_value(engine_rule_score_red(g), engine_rule_score_yellow(g))
        ELSE rule_score_value(rule_score_red(g), rule_score_yellow(g))

PipelineBucket(v, f) ==
    LET g == PipelineFacts(v, f)
    IN  IF v = "engine"
        THEN engine_risk_bucket(engine_rule_score_red(g), engine_rule_score_yellow(g))
        ELSE risk_bucket(rule_score_red(g), rule_score_yellow(g))

PipelineAsks(v, f) ==
    LET g == PipelineFacts(v, f)
    IN  IF v = "engine"
        THEN engine_need_questions_condition(
                 g, engine_risk_bucket(engine_rule_score_red(g), engine_rule_score_yellow(g)))
        ELSE need_questions(g, risk_bucket(rule_score_red(g), rule_score_yellow(g)))

PipelineQuestions(v, f) ==
    IF ~PipelineAsks(v, f) THEN <<>>
    ELSE IF v = "engine" THEN engine_llm_questions(PipelineFacts(v, f))
    ELSE llm_questions_fallback(llm_questions_targets(PipelineFacts(v, f)))

\* A dict without one key.
Without(d, k) == SelectSeq(d, LAMBDA kv : kv[1] # k)

\* The stages that read the normalized facts, and the end of the run.
AfterNormalize == pc \in {"rules", "bucket", "explain", "questions", "compose", "END"}

\* The value normalization gives a key the caller left out.
DefaultOf(k) == Get(DEFAULTS, k)

\* The field a template question asks about ("?" for a collaborator's line).
QuestionField(q) ==
    IF \E k \in Range(priority) : qmap(k) = q
    THEN CHOOSE k \in Range(priority) : qmap(k) = q
    ELSE IF \E k \in Range(RequestOrder) : engine_question(k) = q
    THEN CHOOSE k \in Range(RequestOrder) : engine_question(k) = q
    ELSE "?"

QuestionFields(qs) == [i \in DOMAIN qs |-> QuestionField(qs[i])]

\* The position of a field in the priority list, 0 when it is not in it.
PriorityIndex(k) ==
    IF k \in Range(priority) THEN CHOOSE i \in DOMAIN priority : priority[i] = k ELSE 0

\* The questions come from a template, not from the collaborator.
TemplatePath == variant = "engine" \/ ~llm

\* C5: whenever the Rule Scorer or a later stage reads the facts, every key of
\* the fixed attribute set is present, a key the caller left out holding
\* "unknown" (notes: the empty string).
C5_NormalizedBeforeScoring ==
    AfterNormalize =>
        \A k \in FixedKeys :
            /\ k \in Keys(state.facts)
            /\ k \notin Keys(input) => Get(state.facts, k) = DefaultOf(k)

\* C6: the normalizer returns a mapping that has every fixed key unchanged,
\* normalizing its result again changes nothing, and the empty mapping is
\* normalized to the fixed keys, all "unknown" but notes = "".
C6_NormalizerIdempotent ==
    AfterNormalize =>
        /\ FixedKeys \subseteq Keys(input) => state.facts = input
        /\ PipelineFacts(variant, state.facts) = state.facts
        /\ input = <<>> => state.facts = DEFAULTS

\* C7: a key outside the fixed set is kept with its value and ignored by the
\* later stages: the run ends with the flags, score and bucket of the run without
\* the key, asks questions exactly when that run does, and asks the same ones.
C7_ExtraKeyIgnored ==
    (pc = "END" /\ RagKey \in Keys(input)) =>
        LET f == Without(input, RagKey)
        IN  /\ Get(state.facts, RagKey) = Get(input, RagKey)
            /\ state.flags_red = PipelineRed(variant, f)
            /\ state.flags_yellow = PipelineYellow(variant, f)
            /\ state.risk_score = PipelineScore(variant, f)
            /\ Bucket = PipelineBucket(variant, f)
            /\ Executed("questions") <=> PipelineAsks(variant, f)
            /\ TemplatePath => Questions = PipelineQuestions(variant, f)

\* C8: the question stage runs exactly when the bucket is not GREEN and a fact
\* attribute is "unknown"; with a GREEN bucket it is skipped and the questions
\* the composer and the caller see are empty.
C8_QuestionGating ==
    pc \in {"compose", "END"} =>
        /\ Executed("questions") <=> (Bucket # "GREEN" /\ AttributeUnknown(state.facts))
        /\ Bucket = "GREEN" => (~Executed("questions") /\ Questions = <<>>)

\* C9: a run with a YELLOW or RED bucket and an "unknown" attribute ends with 1
\* to 3 questions, and on the template path each question is the one of a field
\* of the priority list, the fields in the list's order.
C9_QuestionCount ==
    (pc = "END" /\ Bucket \in {"YELLOW", "RED"} /\ AttributeUnknown(state.facts)) =>
        /\ Len(Questions) \in 1..3
        /\ TemplatePath =>
            LET at == [i \in DOMAIN Questions |-> PriorityIndex(QuestionField(Questions[i]))]
            IN  /\ \A i \in DOMAIN at : at[i] > 0
                /\ \A i, j \in DOMAIN at : i < j => at[i] < at[j]

\* C10: the fields asked about are the first three (or fewer) fields of the
\* priority list whose value is "unknown", whatever the key order of the facts.
C10_FirstThreeByPriority ==
    ("followup_questions" \in present /\ TemplatePath) =>
        QuestionFields(Questions) =
            Take(SelectSeq(priority, LAMBDA k : Get(state.facts, k) = UNKNOWN), 3)

\* The two paths through the graph.
LongPath == <<"normalize", "rules", "bucket", "explain", "questions", "compose">>

ShortPath == <<"normalize", "rules", "bucket", "explain", "compose">>

IsPrefix(s, full) == Len(s) <= Len(full) /\ s = SubSeq(full, 1, Len(s))

\* The node a run is at (or would run next) follows the nodes run so far.
NextOnPath(full) == Len(executed) < Len(full) /\ pc = full[Len(executed) + 1]

\* C11: the stages of a run execute in the order Normalizer, Rule Scorer, Bucket
\* Classifier, Explanation Generator, optionally Clarifying-Question Generator,
\* Report Composer: each at most once, none before its predecessor has finished,
\* the Report Composer last (a finished run ends with it), and only after the
\* Explanation Generator are two successors possible.
C11_StageOrder ==
    /\ IsPrefix(executed, LongPath) \/ IsPrefix(executed, ShortPath)
    /\ pc = "END" => executed \in {LongPath, ShortPath}
    /\ pc \notin {"END", "failed"} => (NextOnPath(LongPath) \/ NextOnPath(ShortPath))
    /\ (Len(executed) < 4 /\ pc # "failed") => pc = LongPath[Len(executed) + 1]
    /\ Executed("compose") => pc = "END"

\* A finished run that took the optional stage.
C11_Witness == pc = "END" /\ executed = LongPath

\* The last node run, "" before the first.
LastExecuted == IF executed = <<>> THEN "" ELSE executed[Len(executed)]

\* The collaborator was called in the node and the call raised.
CollaboratorFailed(node) ==
    pc = "failed" /\ LastExecuted = node /\ calls # <<>> /\ calls[Len(calls)] = node

\* C12: a failure of the collaborator while the Explanation Generator or the
\* Clarifying-Question Generator calls it does not propagate: no exception leaves
\* the run, the run goes on to the Report Composer and the caller gets a result.
C12_CollaboratorFailureContained ==
    /\ ~CollaboratorFailed("explain")
    /\ ~CollaboratorFailed("questions")
    /\ (calls # <<>> /\ pc = "END") => "final_answer" \in present

\* What the caller reads off the result.
ResultComplete ==
    /\ pc = "END"
    /\ {"risk_bucket", "final_answer", "flags_red", "flags_yellow"} \subseteq present
    /\ Bucket \in {"GREEN", "YELLOW", "RED"}

\* C13: with the collaborator unavailable, a run on any facts mapping, complete
\* or partial (the empty mapping included), eventually reaches the end of the
\* pipeline with risk_bucket in {GREEN, YELLOW, RED} and final_answer, flags_red
\* and flags_yellow set.
C13_RunCompletes == ~llm ~> ResultComplete

\* A finished run on the empty mapping, and one on a mapping short of a key.
C13_Witness ==
    /\ ~llm /\ ResultComplete
    /\ input = <<>> \/ Cardinality(Keys(input) \cap FixedKeys) = Cardinality(FixedKeys) - 1
    /\ variant = "reference"

\* C14: the classification of a run is a function of the pipeline and the facts
\* passed in alone: flags_red, flags_yellow, risk_score and risk_bucket are what
\* the rules give for these facts, whether a collaborator is available or not and
\* whatever it returns, so two runs on the same facts agree on all four.
C14_ClassificationDeterministic ==
    /\ "risk_score" \in present =>
            /\ state.flags_red = PipelineRed(variant, input)
            /\ state.flags_yellow = PipelineYellow(variant, input)
            /\ state.risk_score = PipelineScore(variant, input)
    /\ "risk_bucket" \in present => Bucket = PipelineBucket(variant, input)

\* A finished run in which the collaborator wrote the explanation and the
\* questions, with flags of both kinds.
C14_Witness ==
    /\ pc = "END" /\ calls = <<"explain", "questions">>
    /\ state.flags_red # <<>> /\ state.flags_yellow # <<>>

\* The four values of the decision, and the keys that hold them.
Decision(s) == <<s.risk_bucket, s.flags_red, s.flags_yellow, s.risk_score>>

DecisionKeys == {"risk_bucket", "flags_red", "flags_yellow", "risk_score"}

\* C15: once the Bucket Classifier has run, no later step (Explanation Generator,
\* Clarifying-Question Generator, Report Composer) changes risk_bucket,
\* flags_red, flags_yellow or risk_score.
C15_DecisionFrame ==
    [][ "risk_bucket" \in present =>
            /\ Decision(state') = Decision(state)
            /\ DecisionKeys \subseteq present' ]_vars

\* A finished run through all three later stages, the collaborator available.
C15_Witness ==
    /\ pc = "END" /\ llm /\ Executed("questions")
    /\ Bucket = "RED" /\ state.risk_score >= 100

\* The forbidden directive list of the pipeline that runs.
ForbiddenList == IF variant = "engine" THEN forbidden_patterns ELSE FORBIDDEN_IMPERATIVES

\* The explanation stored is the collaborator's text after the post-filter.
Filtered == "explanation_md" \in present /\ calls # <<>> /\ calls[1] = "explain"

\* C16: whatever text the collaborator returns, the explanation stored after
\* the post-filter holds no match of any pattern of the forbidden list: removing
\* the patterns one after another neither leaves a match nor creates one by
\* joining the text on both sides of a removed match.
C16_FilterSafety ==
    Filtered =>
        \A p \in DOMAIN ForbiddenList : ~re_search(ForbiddenList[p], state.explanation_md)

\* The first request as a request record, now and after the step.
FirstRequest == [input |-> input, state |-> state, present |-> present, pc |-> pc]

FirstRequestNext == [input |-> input', state |-> state', present |-> present', pc |-> pc']

\* The two requests run the same nodes: a step of the first request is one of
\* the steps the second would take in its place.
SameNodes == [][pc' # pc => FirstRequestNext \in PeerSteps(FirstRequest)]_vars

\* What a request on facts f yields when it runs alone on the engine.
AloneExplanations(f) ==
    IF llm THEN {engine_llm_explain_text(text) : text \in LLMExplainTexts}
    ELSE {engine_llm_explain_fallback(PipelineBucket("engine", f))}

AloneAnswers(f) ==
    {engine_compose(md, PipelineBucket("engine", f), PipelineRed("engine", f),
                    PipelineQuestions("engine", f)) : md \in AloneExplanations(f)}

\* The assessment in State s of a request on facts f is the one of its lone run.
AsAlone(f, s, keys) ==
    /\ "flags_red" \in keys => s.flags_red = PipelineRed("engine", f)
    /\ "flags_yellow" \in keys => s.flags_yellow = PipelineYellow("engine", f)
    /\ "risk_score" \in keys => s.risk_score = PipelineScore("engine", f)
    /\ "risk_bucket" \in keys => s.risk_bucket = PipelineBucket("engine", f)
    /\ "final_answer" \in keys => s.final_answer \in AloneAnswers(f)

\* C17: with two requests on one engine instance, their nodes interleaved in
\* any order (one after the other included), each request's flags_red,
\* flags_yellow, risk_score, risk_bucket and final_answer are those of its run
\* alone: nothing of one request shows in the other or is kept for it.
C17_RequestsIsolated ==
    /\ AsAlone(input, state, present)
    /\ AsAlone(peer.input, peer.state, peer.present)

\* Both requests finished, differing in every assessment field, the second
\* having started its rules after the first had set its flags.
C17_Witness ==
    /\ pc = "END" /\ peer.pc = "END"
    /\ state.flags_red # <<>> /\ peer.state.flags_red = <<>>
    /\ Bucket = "RED" /\ peer.state.risk_bucket = "YELLOW"
    /\ state.final_answer # peer.state.final_answer

\* C18: a run does not modify the facts mapping the caller passed in: in every
\* state of the run, and after it, the caller's mapping has the keys and the
\* values it was passed with.
C18_CallerFactsUnmodified == caller = input

\* The facts of end-to-end scenario 3: the named values, adas_sensor the only
\* attribute that is "unknown", the insurance mention the only RED predicate
\* satisfied and no YELLOW predicate satisfied but the one of adas_sensor.
Scenario3(f) ==
    /\ FixedKeys \subseteq Keys(f)
    /\ Get(f, "injury") = "none" /\ Get(f, "pain_now") = "none"
    /\ Get(f, "hospital_visit") = "none" /\ Get(f, "evidence") = "sufficient"
    /\ Get(f, "vehicle_damage") = "scratch" /\ Get(f, "adas_sensor") = UNKNOWN
    /\ Get(f, "opponent_mentions_insurance") = "yes"
    /\ \A k \in FixedKeys \ {"adas_sensor"} : Get(f, k) # UNKNOWN
    /\ SatisfiedFields(RedPredicates, f) = <<"opponent_mentions_insurance">>
    /\ SatisfiedFields(YellowPredicates, f) = <<"adas_sensor">>

\* The collaborator wrote the questions of the run.
CollaboratorAsked == "questions" \in Range(calls) /\ "followup_questions" \in present

\* A question of the run is keyed to the field: the field's template question,
\* or a line of the collaborator, which was asked about the target fields.
AsksAbout(field) ==
    \/ \E i \in DOMAIN Questions : QuestionField(Questions[i]) = field
    \/ /\ CollaboratorAsked /\ Questions # <<>>
       /\ field \in Range(llm_questions_targets(state.facts))

\* The classification of scenario 3, as far as the run has got.
Scenario3Classified ==
    /\ "flags_red" \in present => FlagFields(state.flags_red) = <<"opponent_mentions_insurance">>
    /\ "risk_bucket" \in present => Bucket = "RED"

\* What does hold of scenario 3: the classification in every run, and with no
\* collaborator client a finished run whose followup_questions is not empty and
\* holds the question of adas_sensor.
Scenario3Template ==
    Scenario3(input) =>
        /\ Scenario3Classified
        /\ ~llm => pc # "failed"
        /\ (~llm /\ pc = "END") =>
                /\ Questions # <<>>
                /\ \E i \in DOMAIN Questions : QuestionField(Questions[i]) = "adas_sensor"

\* C19: every finished run on the facts of scenario 3 has exactly
\* one red flag (the insurance mention), the bucket RED and a non-empty
\* followup_questions with a question keyed to adas_sensor.
C19_Scenario3 ==
    (Scenario3(input) /\ pc = "END") =>
        /\ Scenario3Classified
        /\ Questions # <<>>
        /\ AsksAbout("adas_sensor")

\* No field of the priority list holds "unknown".
NoTarget(f) == \A k \in Range(priority) : Get(f, k) # UNKNOWN

\* C20: when no field of the priority list holds "unknown", or the bucket is
\* GREEN, the run has no question (the Clarifying-Question Generator yields the
\* empty sequence or is skipped) and never calls the collaborator for questions.
C20_NoTargetNoQuestions ==
    ("risk_bucket" \in present /\ (NoTarget(state.facts) \/ Bucket = "GREEN")) =>
        /\ Questions = <<>>
        /\ "questions" \notin Range(calls)

\* ---------------------------------------------- values outside a vocabulary
\* A dict with the value of one of its keys replaced.
With(d, k, v) == [i \in DOMAIN d |-> IF d[i][1] = k THEN <<k, v>> ELSE d[i]]

\* The values of a field that some RED or YELLOW predicate tests for.
Triggering(k) ==
    UNION {RedPredicates[i].values : i \in {j \in DOMAIN RedPredicates : RedPredicates[j].field = k}}
    \cup UNION {YellowPredicates[i].values :
                    i \in {j \in DOMAIN YellowPredicates : YellowPredicates[j].field = k}}

\* The fields the Rule Scorer reads that hold a value outside their vocabulary.
OutOfVocabulary(f) == {k \in IndexedKeys \cap Keys(f) : Get(f, k) \notin Vocabulary(k)}

\* The flags the variant's Rule Scorer computes from given facts.
ScorerRed(f) == IF variant = "engine" THEN engine_rule_score_red(f) ELSE rule_score_red(f)

ScorerYellow(f) ==
    IF variant = "engine" THEN engine_rule_score_yellow(f) ELSE rule_score_yellow(f)

\* C21: a fact value outside its field's vocabulary is not an error: the Rule
\* Scorer completes, the field adds nothing to flags_red or flags_yellow, and
\* the flags are those the scorer gives when the field holds any in-vocabulary
\* value that triggers no predicate.
C21_OutOfVocabularyIgnored ==
    \A k \in OutOfVocabulary(state.facts) :
        /\ ~(pc = "failed" /\ LastExecuted = "rules")
        /\ "flags_red" \in present =>
              /\ k \notin Range(FlagFields(state.flags_red))
              /\ k \notin Range(FlagFields(state.flags_yellow))
              /\ \A v \in Vocabulary(k) \ Triggering(k) :
                    /\ state.flags_red = ScorerRed(With(state.facts, k, v))
                    /\ state.flags_yellow = ScorerYellow(With(state.facts, k, v))

\* The Rule Scorer has run on facts whose injury is outside the vocabulary and
\* that raise other flags, red and yellow.
C21_Witness ==
    /\ "flags_red" \in present
    /\ "injury" \in OutOfVocabulary(state.facts)
    /\ state.flags_red # <<>> /\ state.flags_yellow # <<>>

\* ------------------------------------------------ the template explanation
\* The positive signals of the template explanation, in its order.
PositivePredicates ==
    << [field |-> "injury", values |-> {"none"}, label |-> "no_injury_signal"],
       [field |-> "pain_now", values |-> {"none"}, label |-> "no_pain_now"],
       [field |-> "hospital_visit", values |-> {"none"}, label |-> "no_hospital_visit"],
       [field |-> "evidence", values |-> {"sufficient"}, label |-> "evidence_sufficient"],
       [field |-> "vehicle_damage", values |-> {"none", "scratch"}, label |-> "damage_cosmetic"] >>

\* The labels of the positive signals the facts show.
Positives(f) ==
    {PositivePredicates[i].label :
        i \in {j \in DOMAIN PositivePredicates :
                  Get(f, PositivePredicates[j].field) \in PositivePredicates[j].values}}

\* The last line of the template explanation.
Disclaimer == "final_choice_and_responsibility_are_the_users"

\* C22: with the collaborator unavailable the stored explanation lists the
\* positive signals of the facts, contains every entry of flags_red and of
\* flags_yellow verbatim, and ends with the disclaimer.
C22_TemplateExplanation ==
    (~llm /\ "explanation_md" \in present) =>
        LET md == state.explanation_md
        IN  /\ Positives(state.facts) \subseteq Range(md)
            /\ Range(state.flags_red) \cup Range(state.flags_yellow) \subseteq Range(md)
            /\ md # <<>> /\ md[Len(md)] = Disclaimer

\* The same, of the reference pipeline alone.
ReferenceTemplateExplanation == variant = "reference" => C22_TemplateExplanation

\* ------------------------------------------------------- field ownership
\* The fields of the assessment a run builds, and the stage that owns each.
AssessmentKeys == StateKeys \ {"facts"}

Owner(k) ==
    CASE k \in {"flags_red", "flags_yellow", "risk_score"} -> "rules"
      [] k = "risk_bucket" -> "bucket"
      [] k = "explanation_md" -> "explain"
      [] k = "followup_questions" -> "questions"
      [] k = "final_answer" -> "compose"

\* A step stores the field or changes its value.
Written(k) == k \in present' \ present \/ state'[k] # state[k]

\* C23: every field of the assessment is written only by a step of its owning
\* stage (flags_red, flags_yellow and risk_score by the Rule Scorer, risk_bucket
\* by the Bucket Classifier, explanation by the Explanation Generator,
\* followup_questions by the Question Generator, final_answer by the Composer)
\* and never written again; the Explanation Generator, when it completes,
\* writes the explanation, so it is written exactly once.
C23_FieldOwnership ==
    [][ /\ \A k \in AssessmentKeys :
              Written(k) => /\ k \notin present
                            /\ executed' = Append(executed, Owner(k))
                            /\ pc' # "failed"
        /\ (executed' = Append(executed, "explain") /\ pc' # "failed") =>
              "explanation_md" \in present' \ present ]_vars

\* A finished run in which every stage has written its fields.
C23_Witness ==
    /\ pc = "END"
    /\ AssessmentKeys \subseteq present
    /\ state.followup_questions # <<>> /\ state.flags_yellow # <<>>

\* ------------------------------------------------------ score and bucket
\* C24: once the run is classified, risk_score lies in 0..740 (at most seven
\* red and five yellow flags, the evidence never flagged both red and yellow),
\* and the score alone gives the bucket: RED exactly when the score is at least
\* 100, YELLOW exactly when it is at least 20 and below 100, GREEN exactly when
\* it is below 20.
C24_ScoreDeterminesBucket ==
    "risk_bucket" \in present =>
        /\ state.risk_score \in 0..740
        /\ Len(state.flags_red) <= 7 /\ Len(state.flags_yellow) <= 5
        /\ ~("evidence" \in Range(FlagFields(state.flags_red))
                 /\ "evidence" \in Range(FlagFields(state.flags_yellow)))
        /\ Bucket = "RED" <=> state.risk_score >= 100
        /\ Bucket = "YELLOW" <=> (state.risk_score >= 20 /\ state.risk_score < 100)
        /\ Bucket = "GREEN" <=> state.risk_score < 20

\* A finished run with the largest score: seven red flags and, as the evidence
\* cannot be missing and partial at once, four yellow ones.
C24_Witness == pc = "END" /\ state.risk_score = 740 /\ Bucket = "RED"

\* A finished run with the largest score that has no red flag.
AllYellowRun == pc = "END" /\ state.risk_score = 50 /\ Bucket = "YELLOW"

\* ------------------------------------------------ unknown vehicle damage
\* The caller left vehicle_damage out or gave it as "unknown".
DamageNotGiven == "vehicle_damage" \notin Keys(input) \/ Get(input, "vehicle_damage") = UNKNOWN

\* C25: the run on the empty mapping is classified with exactly one red flag
\* (vehicle_damage unknown), exactly two yellow flags (adas_sensor unknown, then
\* speed unknown), risk_score 120 and bucket RED; and no run whose
\* vehicle_damage is missing or "unknown" is classified GREEN or YELLOW.
C25_UnknownDamageIsRed ==
    "risk_bucket" \in present =>
        /\ input = <<>> =>
              /\ FlagFields(state.flags_red) = <<"vehicle_damage">>
              /\ FlagFields(state.flags_yellow) = <<"adas_sensor", "speed">>
              /\ state.risk_score = 120
              /\ Bucket = "RED"
        /\ DamageNotGiven => Bucket = "RED"

\* The same, of the reference pipeline alone.
ReferenceUnknownDamageIsRed == variant = "reference" => C25_UnknownDamageIsRed

\* The same for the facts the scorer reads, whatever the pipeline.
ScoredUnknownDamageIsRed ==
    ("risk_bucket" \in present /\ Get(state.facts, "vehicle_damage") = UNKNOWN) =>
        Bucket = "RED"

\* ------------------------------------------------ the two variants compared
\* The variant the run is not of.
OtherVariant == IF variant = "engine" THEN "reference" ELSE "engine"

\* C26: with the collaborator unavailable, a finished run of one variant has
\* the number of red flags, the number of yellow flags, the risk_score and the
\* bucket that the other variant computes from the same facts, and has run the
\* question stage exactly when the other variant runs it, whether the facts
\* mapping is complete or partial.
C26_VariantsAgree ==
    (~llm /\ pc = "END") =>
        /\ Len(state.flags_red) = Len(PipelineRed(OtherVariant, input))
        /\ Len(state.flags_yellow) = Len(PipelineYellow(OtherVariant, input))
        /\ state.risk_score = PipelineScore(OtherVariant, input)
        /\ Bucket = PipelineBucket(OtherVariant, input)
        /\ Executed("questions") <=> PipelineAsks(OtherVariant, input)

\* The same, of the mappings that give every fixed key.
CompleteVariantsAgree == FixedKeys \subseteq Keys(input) => C26_VariantsAgree

====
